---- MODULE Spec2Model ----
(***************************************************************************)
(* Script Watcher (script_watcher.py): the loader that executes a watched  *)
(* script into sys.modules, the modal operator that polls modification     *)
(* times on timer events, the operators that start, stop and force a       *)
(* reload, the SplitIO that captures a reload's output, the debug mode of  *)
(* the consoles and the handler run after a document is loaded.  The file  *)
(* system, the scene settings, sys.modules, sys.stdout, the window         *)
(* manager's timers and modal handlers and the debug consoles are state.   *)
(***************************************************************************)
EXTENDS Integers, Sequences, FiniteSets, TLC

\* ------------------------------------------------------------------ bounds
MaxTime == 1    \* modification times are 0..MaxTime
MaxOps == 2     \* operator instances wm.sw_watch_start may create
MaxEnv == 2     \* file-system events (write, remove, chmod) in one behaviour
MaxSteps == 5   \* events (operator calls, modal calls, file-system events) in one behaviour
MaxLen == 3     \* characters in the text of one SplitIO.write call
MaxWrites == 2  \* write calls on one SplitIO

\* ------------------------------------------------------- the file system
Marker == "__init__.py"
Names == {Marker, "tool.py"}
\* Directory 0 holds the directories 1 and 3, directory 1 holds directory 2.
Dirs == {0, 1, 2, 3}
\* The files a session's environment writes and removes: directory 0 can hold a
\* package marker and tool.py, its sub-directory 1 a marker.
Paths == {<<0, Marker>>, <<0, "tool.py">>, <<1, Marker>>}
\* The files a directory tree can hold.
TreePaths == Dirs \X Names
NoFile == <<>>

\* The sub-directories of a directory, in os.walk's order.
Children(d) == CASE d = 0 -> <<1, 3>> [] d = 1 -> <<2>> [] OTHER -> <<>>

dirname(p) == p[1]
basename(p) == p[2]
\* os.path.basename of a directory.
DirBase(d) == CASE d = 0 -> "pkg" [] d = 1 -> "sub" [] d = 2 -> "deep" [] OTHER -> "lib"
\* os.path.splitext(name)[0]
splitext0(n) == IF n = "tool.py" THEN "tool" ELSE "__init__"
\* The dotted name under which Python's import system registers a file of
\* the package tree.
QualName(p) ==
    CASE p[1] = 0 -> (IF p[2] = Marker THEN "pkg" ELSE "pkg.tool")
      [] p[1] = 1 -> (IF p[2] = Marker THEN "pkg.sub" ELSE "pkg.sub.tool")
      [] p[1] = 2 -> (IF p[2] = Marker THEN "pkg.sub.deep" ELSE "pkg.sub.deep.tool")
      [] OTHER -> (IF p[2] = Marker THEN "pkg.lib" ELSE "pkg.lib.tool")

\* What compiling and executing the watched script's text does: it runs to its
\* end, it runs to its end and imports the other modules of its package, it
\* raises an exception that is no OSError (a SyntaxError of compile among
\* them), or it raises an OSError.
Behaviours == {"ok", "import", "raise", "oserror"}

VARIABLES
    fs,          \* path -> [st, mtime]: "file", "noperm" (exists, open fails) or "absent"
    listOrder,   \* the order in which a directory lists its file names
    script,      \* what the text of the file at sw_settings.filepath does when run
    filepath,    \* scene.sw_settings.filepath
    running,     \* scene.sw_settings.running
    reloadFlag,  \* scene.sw_settings.reload
    sys_modules, \* set of [key, file, gen]: sys.modules
    gen,         \* number of module objects created so far
    ops,         \* 1..MaxOps -> WatchScriptOperator instance
    timers,      \* operators whose event timer is registered with the window manager
    removed,     \* 1..MaxOps -> number of event_timer_remove calls for its timer
    consoles,    \* screen.sw_consoles with each console's locals and globals
    sys_stdout,  \* the SplitIO objects between sys.stdout and sys.__stdout__
    envSteps,    \* file-system events so far
    steps,       \* events so far
    last,        \* what the last event did: handler, fault raised, reloads performed
    shim,        \* one SplitIO: _can_prefix, its own buffer, the wrapped stream
    writes       \* the write calls made on shim: the text and where its output began

\* The add-on's state apart from the one SplitIO observed on its own.
watcher == <<fs, listOrder, script, filepath, running, reloadFlag, sys_modules, gen,
             ops, timers, removed, consoles, sys_stdout, envSteps, steps, last>>
vars == <<watcher, shim, writes>>

\* os.path.isfile: an existing regular file, readable or not.
isfile(p) == p \in DOMAIN fs /\ fs[p].st # "absent"
\* open(p) succeeds.
CanOpen(p) == p \in DOMAIN fs /\ fs[p].st = "file"

\* ------------------------------------------------------------ sequences
RECURSIVE SelectNames(_, _)
\* The names of order that satisfy keep, in order.
SelectNames(order, keep) ==
    IF order = <<>> THEN <<>>
    ELSE (IF Head(order) \in keep THEN <<Head(order)>> ELSE <<>>)
         \o SelectNames(Tail(order), keep)

Range(s) == {s[k] : k \in DOMAIN s}

\* The files os.walk lists for directory d.
ListFiles(d) ==
    LET present == {n \in Names : isfile(<<d, n>>)}
        names == SelectNames(listOrder, present)
    IN [k \in DOMAIN names |-> <<d, names[k]>>]

RECURSIVE WalkDirs(_)
RECURSIVE WalkDirsOf(_)
\* A walk that goes on below a directory without '__init__.py'.
WalkDirs_below_unmarked(d) ==
    (IF isfile(<<d, Marker>>) THEN <<d>> ELSE <<>>) \o WalkDirsOf(Children(d))

\* The directories os.walk visits from d and on whose files '__init__.py'
\* is found; a directory without it is not descended.
WalkDirs(d) ==
    IF isfile(<<d, Marker>>)
    THEN <<d>> \o WalkDirsOf(Children(d))
    ELSE <<>>
WalkDirsOf(ds) ==
    IF ds = <<>> THEN <<>> ELSE WalkDirs(Head(ds)) \o WalkDirsOf(Tail(ds))

RECURSIVE FilesOf(_)
FilesOf(ds) ==
    IF ds = <<>> THEN <<>> ELSE ListFiles(Head(ds)) \o FilesOf(Tail(ds))

\* ScriptWatcherLoader.get_paths: the tuple (paths, filepaths or [filepath]).
get_paths(fp) ==
    LET paths == WalkDirs(dirname(fp))
        filepaths == FilesOf(paths)
    IN <<paths, IF filepaths = <<>> THEN <<fp>> ELSE filepaths>>

\* ScriptWatcherLoader.get_mod_name
get_mod_name(fp) ==
    IF basename(fp) = Marker THEN DirBase(dirname(fp)) ELSE splitext0(basename(fp))

\* ------------------------------------------------------------ sys.modules
Has(reg, k) == \E e \in reg : e.key = k
Lookup(reg, k) == CHOOSE e \in reg : e.key = k
\* The module registered under k, as its generation; 0 when there is none.
GenOf(reg, k) == IF Has(reg, k) THEN Lookup(reg, k).gen ELSE 0
\* The script was not executed.
NotRun == -1
\* sys.modules[k] = module
Assign(reg, k, file, g) ==
    {e \in reg : e.key # k} \cup {[key |-> k, file |-> file, gen |-> g]}

\* A Python tuple of lists, each item tagged with its type.
PyTuple(t) == [k \in DOMAIN t |-> [type |-> "list", val |-> t[k]]]
\* x in items, for a string x: an item equals x only if it is a string.
StrIn(x, items) == \E k \in DOMAIN items : items[k].type = "str" /\ items[k].val = x

\* remove_cached_mods that looks the directory up in the list of package
\* directories.
remove_cached_mods_by_directory(reg, fp) ==
    {e \in reg : ~(e.file # NoFile /\ dirname(e.file) \in Range(get_paths(fp)[1]))}

\* ScriptWatcherLoader.remove_cached_mods: paths is the whole tuple that
\* get_paths returns, and the directory of each module's file is looked up in it.
remove_cached_mods(reg, fp) ==
    LET paths == PyTuple(get_paths(fp))
    IN {e \in reg : ~(e.file # NoFile /\ StrIn(dirname(e.file), paths))}

\* The modules the script's import statements add: the import system
\* executes a file of the package only when its name is not cached.
Imported(reg, fp, g) ==
    reg \cup {[key |-> QualName(q), file |-> q, gen |-> g] :
                q \in {x \in Range(get_paths(fp)[2]) \ {fp} :
                          CanOpen(x) /\ ~Has(reg, QualName(x))}}

MsgReload == "Reloading script:"
MsgOpen == "Could not open script file."
MsgError == "There was an error when loading the module:"

\* ScriptWatcherLoader.load_module, from registry reg with g modules created:
\* the registry and count afterwards, the lines printed to stdout, stderr, and
\* the module the script finds under its own name while it is executed.
load_module(reg, g, fp, modn) ==
    IF ~CanOpen(fp)
    THEN [reg |-> reg, gen |-> g, out |-> <<MsgOpen>>, err |-> <<>>, exec |-> NotRun]
    ELSE LET reg1 == Assign(reg, modn, fp, g + 1)
             seen == GenOf(reg1, modn)
         IN CASE script = "ok" ->
                   [reg |-> reg1, gen |-> g + 1, out |-> <<>>, err |-> <<>>,
                    exec |-> seen]
              [] script = "import" ->
                   [reg |-> Imported(reg1, fp, g + 1), gen |-> g + 1,
                    out |-> <<>>, err |-> <<>>, exec |-> seen]
              [] script = "oserror" ->
                   [reg |-> reg1, gen |-> g + 1, out |-> <<MsgOpen>>, err |-> <<>>,
                    exec |-> seen]
              [] OTHER ->
                   [reg |-> reg1, gen |-> g + 1, out |-> <<>>, err |-> <<MsgError>>,
                    exec |-> seen]

\* ScriptWatcherLoader.reload
reload(reg, g, fp, modn) ==
    LET r == load_module(remove_cached_mods(reg, fp), g, fp, modn)
    IN [r EXCEPT !.out = <<MsgReload>> \o @]

\* ----------------------------------------------------------------- SplitIO
\* Text is a sequence of characters; the prefix counts as one character that
\* no script writes.
Chars == {"a", "\n"}
PREFIX == "[Script Watcher]: "
Texts == UNION {[1..n -> Chars] : n \in 0..MaxLen}
\* s.endswith('\n')
endswith_newline(s) == s # <<>> /\ s[Len(s)] = "\n"

\* A SplitIO as __init__ leaves it.
SplitIO == [can_prefix |-> TRUE, buffer |-> <<>>, stream |-> <<>>]

\* SplitIO.write that forwards the text as it was passed in.
SplitIO_write_forwards_raw(sh, s) ==
    LET text == IF sh.can_prefix THEN <<PREFIX>> \o s ELSE s
    IN [can_prefix |-> endswith_newline(text),
        buffer |-> sh.buffer \o text,
        stream |-> sh.stream \o s]

\* SplitIO.write that prefixes whatever the state.
SplitIO_write_always_prefix(sh, s) ==
    LET text == <<PREFIX>> \o s
    IN [can_prefix |-> endswith_newline(text),
        buffer |-> sh.buffer \o text,
        stream |-> sh.stream \o text]

\* SplitIO.write: the shim after write(s).
SplitIO_write(sh, s) ==
    LET text == IF sh.can_prefix THEN <<PREFIX>> \o s ELSE s
    IN [can_prefix |-> endswith_newline(text),
        buffer |-> sh.buffer \o text,
        stream |-> sh.stream \o text]

\* ---------------------------------------------------------------- consoles
Digits == {"0", "1", "2", "3", "4", "5", "6", "7", "8", "9"}
\* str.isnumeric
isnumeric(s) == Len(s) > 0 /\ \A k \in DOMAIN s : s[k] \in Digits
\* isnum, on a non-empty string of characters.
isnum(s) == isnumeric(Tail(s)) /\ s[1] \in Digits \cup {"-", "+"}

\* The names of screen.sw_consoles: str(hash(region)).
ConsoleNames == {<<"1", "2">>}
\* A screen with a second console, whose region hashes to one digit.
TwoConsoleNames == {<<"1", "2">>, <<"7">>}
\* A console's own namespace; the namespace of a module is its generation.
OwnLocals == 0

\* WatchScriptOperator.reload_script for operator o, in handler state S =
\* [reg, gen, cons, std, fault, log]; trig is the path whose change asked for
\* it.  sys.stdout and sys.stderr are replaced and reset by the same statements;
\* the KeyError of the console loop leaves the function before the reset.  A
\* log entry holds what the reload printed, the module it made, the number of
\* SplitIO its output went through, and the module registered under the
\* script's name before it, while the script ran, and when the consoles are
\* served.
reload_script(o, trig, S) ==
    LET r == reload(S.reg, S.gen, o.filepath, o.mod_name)
        bound == {c \in DOMAIN S.cons :
                     S.cons[c].listed /\ S.cons[c].active /\ isnum(c)}
        keyerror == bound # {} /\ ~Has(r.reg, o.mod_name)
        entry == [trig |-> trig, out |-> r.out, err |-> r.err,
                  made |-> IF r.gen > S.gen THEN r.gen ELSE 0,
                  shims |-> S.std + 1,
                  before |-> GenOf(S.reg, o.mod_name),
                  exec |-> r.exec,
                  after |-> GenOf(r.reg, o.mod_name)]
    IN [reg |-> r.reg,
        gen |-> r.gen,
        std |-> IF keyerror THEN S.std + 1 ELSE 0,
        cons |-> IF keyerror THEN S.cons
                 ELSE [c \in DOMAIN S.cons |->
                         IF c \in bound
                         THEN [S.cons[c] EXCEPT !.locals = Lookup(r.reg, o.mod_name).gen]
                         ELSE S.cons[c]],
        fault |-> IF keyerror THEN "KeyError" ELSE "none",
        log |-> Append(S.log, entry)]

\* ------------------------------------------------------------- operators
NoOp == [st |-> "none", filepath |-> NoFile, mod_name |-> "", files |-> <<>>,
         times |-> <<>>]
OpIds == 1..MaxOps
\* The handler state a handler starts from.
Entry == [reg |-> sys_modules, gen |-> gen, cons |-> consoles, std |-> sys_stdout,
          fault |-> "none", log |-> <<>>]
Did(kind, op, evt, result, fault, log) ==
    [kind |-> kind, op |-> op, evt |-> evt, result |-> result, fault |-> fault,
     log |-> log]
\* One more event of the add-on happens; the SplitIO observed on its own is
\* not written to.
Step == steps < MaxSteps /\ steps' = steps + 1 /\ UNCHANGED <<shim, writes>>

\* The snapshot WatchScriptOperator.execute builds: the modification time of
\* every path of files, and 0 for files[0].
InitialTimes(files) ==
    [p \in Range(files) |-> IF p = files[1] THEN 0 ELSE fs[p].mtime]

\* execute without the look at sw_settings.running.
execute_ignores_running(i) ==
    /\ Step
    /\ ops[i].st = "none"
    /\ \A j \in OpIds : j < i => ops[j].st # "none"
    /\ \/ /\ ~isfile(filepath)
          /\ last' = Did("execute", 0, "", "ERROR", "none", <<>>)
          /\ UNCHANGED <<running, ops, timers>>
       \/ /\ isfile(filepath)
          /\ LET files == get_paths(filepath)[2]
             IN ops' = [ops EXCEPT ![i] =
                          [st |-> "modal", filepath |-> filepath,
                           mod_name |-> get_mod_name(filepath), files |-> files,
                           times |-> InitialTimes(files)]]
          /\ timers' = timers \cup {i}
          /\ running' = TRUE
          /\ last' = Did("execute", i, "", "RUNNING_MODAL", "none", <<>>)
    /\ UNCHANGED sys_stdout
    /\ UNCHANGED <<fs, listOrder, script, filepath, reloadFlag, sys_modules, gen,
                   removed, consoles, envSteps>>

\* WatchScriptOperator.execute, the operator instance being i.
execute(i) ==
    /\ Step
    /\ ops[i].st = "none"
    /\ \A j \in OpIds : j < i => ops[j].st # "none"
    /\ \/ /\ running
          /\ last' = Did("execute", 0, "", "CANCELLED", "none", <<>>)
          /\ UNCHANGED <<running, ops, timers>>
       \/ /\ ~running
          /\ ~isfile(filepath)
          /\ last' = Did("execute", 0, "", "ERROR", "none", <<>>)
          /\ UNCHANGED <<running, ops, timers>>
       \/ /\ ~running
          /\ isfile(filepath)
          /\ LET files == get_paths(filepath)[2]
             IN ops' = [ops EXCEPT ![i] =
                          [st |-> "modal", filepath |-> filepath,
                           mod_name |-> get_mod_name(filepath), files |-> files,
                           times |-> InitialTimes(files)]]
          /\ timers' = timers \cup {i}
          /\ running' = TRUE
          /\ last' = Did("execute", i, "", "RUNNING_MODAL", "none", <<>>)
    /\ UNCHANGED sys_stdout
    /\ UNCHANGED <<fs, listOrder, script, filepath, reloadFlag, sys_modules, gen,
                   removed, consoles, envSteps>>

RECURSIVE TimerLoop(_, _, _, _)
\* The loop of WatchScriptOperator.modal over self._times from its k-th path:
\* os.stat raises for a path that is gone; a path whose modification time
\* differs from the snapshot is recorded and reload_script runs.
TimerLoop(k, o, times, S) ==
    IF k > Len(o.files) \/ S.fault # "none"
    THEN [times |-> times, S |-> S]
    ELSE LET p == o.files[k]
         IN IF ~isfile(p)
            THEN [times |-> times, S |-> [S EXCEPT !.fault = "FileNotFoundError"]]
            ELSE IF fs[p].mtime # times[p]
                 THEN TimerLoop(k + 1, o, [times EXCEPT ![p] = fs[p].mtime],
                                reload_script(o, p, S))
                 ELSE TimerLoop(k + 1, o, times, S)

\* The handler state committed: sys.modules, the module count, the consoles,
\* sys.stdout.
Commit(S) ==
    /\ sys_modules' = S.reg
    /\ gen' = S.gen
    /\ consoles' = S.cons
    /\ sys_stdout' = S.std

\* WatchScriptOperator.cancel
cancel(i) ==
    /\ timers' = timers \ {i}
    /\ removed' = [removed EXCEPT ![i] = @ + 1]
    /\ sys_modules' = remove_cached_mods(sys_modules, ops[i].filepath)
    /\ running' = FALSE

\* modal, lines 285-287: the running flag is off, so the operator cancels itself.
modal_cancel(i, evt) ==
    /\ ~running
    /\ cancel(i)
    /\ ops' = [ops EXCEPT ![i].st = "ended"]
    /\ last' = Did("modal", i, evt, "CANCELLED", "none", <<>>)
    /\ UNCHANGED sys_stdout
    /\ UNCHANGED <<reloadFlag, gen, consoles>>

\* An exception that leaves modal goes to the host, which may end the
\* operator (without calling cancel) or keep calling it.
Raised(i, fault, st) ==
    \E drop \in BOOLEAN :
       /\ drop => fault # "none"
       /\ st = IF drop THEN "dropped" ELSE ops[i].st

\* modal_reload that forgets to clear sw_settings.reload.
modal_reload_keeps_flag(i, evt) ==
    /\ running
    /\ reloadFlag
    /\ reloadFlag' = reloadFlag
    /\ LET S == reload_script(ops[i], NoFile, Entry)
       IN /\ Commit(S)
          /\ \E st \in {"modal", "dropped"} :
                /\ Raised(i, S.fault, st)
                /\ ops' = [ops EXCEPT ![i].st = st]
          /\ last' = Did("modal", i, evt,
                         IF S.fault = "none" THEN "PASS_THROUGH" ELSE "RAISED",
                         S.fault, S.log)
    /\ UNCHANGED <<running, timers, removed>>

\* modal, lines 289-292: a reload was requested.
modal_reload(i, evt) ==
    /\ running
    /\ reloadFlag
    /\ reloadFlag' = FALSE
    /\ LET S == reload_script(ops[i], NoFile, Entry)
       IN /\ Commit(S)
          /\ \E st \in {"modal", "dropped"} :
                /\ Raised(i, S.fault, st)
                /\ ops' = [ops EXCEPT ![i].st = st]
          /\ last' = Did("modal", i, evt,
                         IF S.fault = "none" THEN "PASS_THROUGH" ELSE "RAISED",
                         S.fault, S.log)
    /\ UNCHANGED <<running, timers, removed>>

\* modal, lines 294-302: a timer event, the snapshot is compared.
modal_timer(i, evt) ==
    /\ running
    /\ ~reloadFlag
    /\ evt = "TIMER"
    /\ LET r == TimerLoop(1, ops[i], ops[i].times, Entry)
       IN /\ Commit(r.S)
          /\ \E st \in {"modal", "dropped"} :
                /\ Raised(i, r.S.fault, st)
                /\ ops' = [ops EXCEPT ![i].times = r.times, ![i].st = st]
          /\ last' = Did("modal", i, evt,
                         IF r.S.fault = "none" THEN "PASS_THROUGH" ELSE "RAISED",
                         r.S.fault, r.S.log)
    /\ UNCHANGED <<running, reloadFlag, timers, removed>>

\* modal, line 302: any other event passes through.
modal_pass(i, evt) ==
    /\ running
    /\ ~reloadFlag
    /\ evt # "TIMER"
    /\ last' = Did("modal", i, evt, "PASS_THROUGH", "none", <<>>)
    /\ UNCHANGED sys_stdout
    /\ UNCHANGED <<running, reloadFlag, sys_modules, gen, ops, timers, removed,
                   consoles>>

\* WatchScriptOperator.modal of instance i for one event; timer events come
\* while a timer is registered.
modal(i, evt) ==
    /\ Step
    /\ ops[i].st = "modal"
    /\ evt = "TIMER" => timers # {}
    /\ \/ modal_cancel(i, evt)
       \/ modal_reload(i, evt)
       \/ modal_timer(i, evt)
       \/ modal_pass(i, evt)
    /\ UNCHANGED <<fs, listOrder, script, filepath, envSteps>>

\* CancelScriptWatcher.execute
sw_watch_end ==
    /\ Step
    /\ running' = FALSE
    /\ last' = Did("sw_watch_end", 0, "", "FINISHED", "none", <<>>)
    /\ UNCHANGED sys_stdout
    /\ UNCHANGED <<fs, listOrder, script, filepath, reloadFlag, sys_modules, gen, ops,
                   timers, removed, consoles, envSteps>>

\* ReloadScriptWatcher.execute
sw_reload ==
    /\ Step
    /\ reloadFlag' = TRUE
    /\ last' = Did("sw_reload", 0, "", "FINISHED", "none", <<>>)
    /\ UNCHANGED sys_stdout
    /\ UNCHANGED <<fs, listOrder, script, filepath, running, sys_modules, gen, ops,
                   timers, removed, consoles, envSteps>>

\* The module name update_debug derives from sw_settings.filepath.
update_debug_mod(fp) ==
    IF basename(fp) = Marker THEN DirBase(dirname(fp)) ELSE splitext0(basename(fp))

\* The Debug Mode button that SWConsoleHeader.draw has laid out for console c:
\* the property flips and update_debug runs.
update_debug(c) ==
    LET con == consoles[c]
        mod == update_debug_mod(filepath)
    IN /\ Step
       /\ con.listed
       /\ \/ /\ ~con.active
             /\ running
             /\ Has(sys_modules, mod)
             /\ consoles' = [consoles EXCEPT ![c] =
                    [con EXCEPT !.active = TRUE, !.globals = con.locals,
                                !.locals = Lookup(sys_modules, mod).gen]]
             /\ last' = Did("update_debug", 0, "", "", "none", <<>>)
          \/ /\ ~con.active
             /\ running
             /\ ~Has(sys_modules, mod)
             /\ consoles' = [consoles EXCEPT ![c] =
                    [con EXCEPT !.active = TRUE, !.globals = con.locals]]
             /\ last' = Did("update_debug", 0, "", "RAISED", "KeyError", <<>>)
          \/ /\ ~con.active
             /\ ~running
             /\ consoles' = [consoles EXCEPT ![c] =
                    [con EXCEPT !.active = TRUE, !.globals = con.locals]]
             /\ last' = Did("update_debug", 0, "", "", "none", <<>>)
          \/ /\ con.active
             /\ consoles' = [consoles EXCEPT ![c] =
                    [con EXCEPT !.active = FALSE, !.locals = con.globals]]
             /\ last' = Did("update_debug", 0, "", "", "none", <<>>)
       /\ UNCHANGED sys_stdout
       /\ UNCHANGED <<fs, listOrder, script, filepath, running, reloadFlag, sys_modules,
                      gen, ops, timers, removed, envSteps>>

\* SWConsoleHeader.draw for console c: the console joins screen.sw_consoles
\* when it is not in it.
draw(c) ==
    /\ Step
    /\ ~consoles[c].listed
    /\ consoles' = [consoles EXCEPT ![c].listed = TRUE, ![c].active = FALSE]
    /\ last' = Did("draw", 0, "", "", "none", <<>>)
    /\ UNCHANGED <<fs, listOrder, script, filepath, running, reloadFlag, sys_modules,
                   gen, ops, timers, removed, sys_stdout, envSteps>>

\* screen.sw_consoles.clear() on every screen; the consoles keep their locals.
Cleared == [c \in DOMAIN consoles |->
              [consoles[c] EXCEPT !.listed = FALSE, !.active = FALSE]]

\* load_handler, which the host calls after it has loaded a document; saved
\* and auto are sw_settings.running and auto_watch_on_startup of the
\* document's scene.  wm.sw_watch_end clears running, wm.sw_watch_start runs
\* execute in a new operator instance, and an operator that reports an error
\* may make the bpy.ops call raise, which ends the handler before the clear.
\* The modal handlers and timers registered before the load are the host's.
load_handler(saved, auto) ==
    /\ Step
    /\ \/ /\ ~(saved /\ auto)
          /\ running' = FALSE
          /\ consoles' = Cleared
          /\ last' = Did("load_handler", 0, "", "FINISHED", "none", <<>>)
          /\ UNCHANGED <<ops, timers>>
       \/ /\ saved /\ auto
          /\ ~isfile(filepath)
          /\ running' = FALSE
          /\ \E raises \in BOOLEAN :
                /\ consoles' = IF raises THEN consoles ELSE Cleared
                /\ last' = Did("load_handler", 0, "", "ERROR",
                               IF raises THEN "RuntimeError" ELSE "none", <<>>)
          /\ UNCHANGED <<ops, timers>>
       \/ /\ saved /\ auto
          /\ isfile(filepath)
          /\ \E i \in OpIds :
                /\ ops[i].st = "none"
                /\ \A j \in OpIds : j < i => ops[j].st # "none"
                /\ LET files == get_paths(filepath)[2]
                   IN ops' = [ops EXCEPT ![i] =
                                [st |-> "modal", filepath |-> filepath,
                                 mod_name |-> get_mod_name(filepath), files |-> files,
                                 times |-> InitialTimes(files)]]
                /\ timers' = timers \cup {i}
                /\ last' = Did("load_handler", i, "", "RUNNING_MODAL", "none", <<>>)
          /\ running' = TRUE
          /\ consoles' = Cleared
    /\ UNCHANGED <<fs, listOrder, script, filepath, reloadFlag, sys_modules, gen,
                   removed, sys_stdout, envSteps>>

\* ------------------------------------------------------- the environment
\* An editor or another program writes file p: its modification time becomes
\* t, and the watched script's text may now do b.
WriteFile(p, t, b) ==
    /\ Step
    /\ envSteps < MaxEnv
    /\ fs[p].st # "noperm"
    /\ isfile(p) => t # fs[p].mtime
    /\ p # filepath => b = script
    /\ fs' = [fs EXCEPT ![p] = [st |-> "file", mtime |-> t]]
    /\ script' = b
    /\ envSteps' = envSteps + 1
    /\ last' = Did("fs", 0, "", "", "none", <<>>)
    /\ UNCHANGED sys_stdout
    /\ UNCHANGED <<listOrder, filepath, running, reloadFlag, sys_modules, gen, ops,
                   timers, removed, consoles>>

RemoveFile(p) ==
    /\ Step
    /\ envSteps < MaxEnv
    /\ isfile(p)
    /\ fs' = [fs EXCEPT ![p] = [st |-> "absent", mtime |-> 0]]
    /\ envSteps' = envSteps + 1
    /\ last' = Did("fs", 0, "", "", "none", <<>>)
    /\ UNCHANGED sys_stdout
    /\ UNCHANGED <<listOrder, script, filepath, running, reloadFlag, sys_modules, gen,
                   ops, timers, removed, consoles>>

\* The read permission of the watched script, the one file the loader opens,
\* is taken away or given back.
Chmod(p) ==
    /\ Step
    /\ envSteps < MaxEnv
    /\ p = filepath
    /\ isfile(p)
    /\ fs' = [fs EXCEPT ![p].st = IF @ = "file" THEN "noperm" ELSE "file"]
    /\ envSteps' = envSteps + 1
    /\ last' = Did("fs", 0, "", "", "none", <<>>)
    /\ UNCHANGED sys_stdout
    /\ UNCHANGED <<listOrder, script, filepath, running, reloadFlag, sys_modules, gen,
                   ops, timers, removed, consoles>>

\* Some code calls shim.write(s).
write(s) ==
    /\ Len(writes) < MaxWrites
    /\ shim' = SplitIO_write(shim, s)
    /\ writes' = Append(writes, [s |-> s, at |-> Len(shim.stream) + 1])
    /\ UNCHANGED watcher

\* ---------------------------------------------------------- specification
Orders == {<<Marker, "tool.py">>, <<"tool.py", Marker>>}

\* The trees a behaviour starts from: a single file, a package, a package with
\* a sub-package, and a single file beside a directory that holds a package.
Layouts == {{<<0, "tool.py">>},
            {<<0, Marker>>, <<0, "tool.py">>},
            {<<0, Marker>>, <<0, "tool.py">>, <<1, Marker>>},
            {<<0, "tool.py">>, <<1, Marker>>}}

\* The add-on registered and nothing started.
Idle ==
    /\ script = "ok"
    /\ running = FALSE
    /\ reloadFlag = FALSE
    /\ sys_modules = {[key |-> "sys", file |-> NoFile, gen |-> 0]}
    /\ gen = 0
    /\ ops = [i \in OpIds |-> NoOp]
    /\ timers = {}
    /\ removed = [i \in OpIds |-> 0]
    /\ consoles = [c \in ConsoleNames |->
                     [listed |-> TRUE, active |-> FALSE, locals |-> OwnLocals,
                      globals |-> OwnLocals]]
    /\ sys_stdout = 0
    /\ envSteps = 0
    /\ steps = 0
    /\ last = Did("init", 0, "", "", "none", <<>>)
    /\ shim = SplitIO
    /\ writes = <<>>

Init ==
    /\ \E present \in Layouts :
          /\ fs = [p \in Paths |-> IF p \in present
                                  THEN [st |-> "file", mtime |-> 1]
                                  ELSE [st |-> "absent", mtime |-> 0]]
          /\ filepath \in {p \in present : dirname(p) = 0}
    /\ listOrder \in Orders
    /\ Idle

Next ==
    \/ \E i \in OpIds : execute(i)
    \/ \E i \in OpIds, evt \in {"TIMER", "MOUSEMOVE"} : modal(i, evt)
    \/ sw_watch_end
    \/ sw_reload
    \/ \E c \in DOMAIN consoles : update_debug(c)
    \/ \E p \in Paths, t \in 0..MaxTime, b \in Behaviours : WriteFile(p, t, b)
    \/ \E p \in Paths : RemoveFile(p)
    \/ \E p \in Paths : Chmod(p)

\* Sessions in one document.
Spec == Init /\ [][Next]_vars

\* Sessions across document loads: the host also calls load_handler and
\* draws the console headers again.
NextLoad ==
    \/ Next
    \/ \E c \in DOMAIN consoles : draw(c)
    \/ \E saved, auto \in BOOLEAN : load_handler(saved, auto)
SpecLoad == Init /\ [][NextLoad]_vars

\* Sessions on a single script while the screen shows two consoles.
InitConsoles ==
    /\ fs = [p \in Paths |-> IF p = <<0, "tool.py">>
                              THEN [st |-> "file", mtime |-> 1]
                              ELSE [st |-> "absent", mtime |-> 0]]
    /\ filepath = <<0, "tool.py">>
    /\ listOrder = <<Marker, "tool.py">>
    /\ \E c \in [TwoConsoleNames -> {[listed |-> TRUE, active |-> FALSE,
                                       locals |-> OwnLocals, globals |-> OwnLocals]}] :
          consoles = c
    /\ script = "ok"
    /\ running = FALSE
    /\ reloadFlag = FALSE
    /\ sys_modules = {[key |-> "sys", file |-> NoFile, gen |-> 0]}
    /\ gen = 0
    /\ ops = [i \in OpIds |-> NoOp]
    /\ timers = {}
    /\ removed = [i \in OpIds |-> 0]
    /\ sys_stdout = 0
    /\ envSteps = 0
    /\ steps = 0
    /\ last = Did("init", 0, "", "", "none", <<>>)
    /\ shim = SplitIO
    /\ writes = <<>>
SpecConsoles == InitConsoles /\ [][Next]_vars

\* One SplitIO and the write calls made on it, the add-on idle.
InitIO ==
    /\ Init
    /\ filepath = <<0, "tool.py">>
    /\ \A p \in Paths : isfile(p) <=> p = filepath
    /\ listOrder = <<Marker, "tool.py">>
NextIO == \E s \in Texts : write(s)
SpecIO == InitIO /\ [][NextIO]_vars

\* Every directory tree over TreePaths and every script path in it; sessions
\* are started on it and the tree is left as it is.
InitPaths ==
    /\ \E present \in SUBSET TreePaths :
          fs = [p \in TreePaths |-> IF p \in present
                                      THEN [st |-> "file", mtime |-> 1]
                                      ELSE [st |-> "absent", mtime |-> 0]]
    /\ filepath \in TreePaths
    /\ listOrder \in Orders
    /\ Idle
NextPaths == \E i \in OpIds : execute(i)
SpecPaths == InitPaths /\ [][NextPaths]_vars

\* ------------------------------------------------------------------ claims
\* The operators whose modal handler the window manager still calls.
Pollers == {i \in OpIds : ops[i].st = "modal"}
\* The tracked paths of operator o whose modification time differs from its snapshot.
Changed(o) == {p \in Range(o.files) : isfile(p) /\ fs[p].mtime # o.times[p]}
IndexOf(files, p) == CHOOSE k \in DOMAIN files : files[k] = p
\* The step is a call of modal of operator i.
ModalStep(i) == last'.kind = "modal" /\ last'.op = i

\* C1: once a session is stopped its timer is released exactly once and none
\* of its ticks reloads afterwards, so at most one poller and one timer are
\* ever registered, whatever the order of start, stop, request and tick.
C1_StoppedSessionReleased ==
    /\ Cardinality(Pollers) <= 1
    /\ Cardinality(timers) <= 1
    /\ \A i \in OpIds : removed[i] <= 1
    /\ (last.kind = "modal" /\ last.log # <<>>) =>
          \A j \in OpIds : j > last.op => ops[j].st = "none"

\* C2: after a load and the unload that cancel runs, sys.modules has no entry
\* under the target's module name and none whose file lies in a directory of
\* the tracked package.
C2_UnloadedAfterCancel ==
    (last.kind = "modal" /\ last.result = "CANCELLED") =>
        /\ ~Has(sys_modules, ops[last.op].mod_name)
        /\ \A e \in sys_modules :
              e.file # NoFile =>
                 dirname(e.file) \notin Range(get_paths(ops[last.op].filepath)[1])

\* C3: when the script's top-level code raises, the diagnostic text is on the
\* captured error channel and the session keeps watching with its timer.
C3_ScriptFaultCaptured ==
    (last.kind = "modal" /\ script \in {"raise", "oserror"}) =>
        \A k \in DOMAIN last.log :
           last.log[k].made > 0 =>
              /\ MsgError \in Range(last.log[k].err)
              /\ running
              /\ last.op \in timers

\* C4: a tick or requested reload of a watching session that finds the root
\* file unopenable or a tracked file missing raises nothing to the host and
\* leaves the session watching.
C4_MissingFileNotFatal ==
    (/\ last.kind = "modal"
     /\ last.result # "CANCELLED"
     /\ \/ ~CanOpen(ops[last.op].filepath)
        \/ \E p \in Range(ops[last.op].files) : ~isfile(p)) =>
        /\ last.fault = "none"
        /\ running
        /\ ops[last.op].st = "modal"
        /\ last.op \in timers

\* C5: while watching, a timer tick that finds a tracked file's modification
\* time different from its snapshot entry reloads, and afterwards sys.modules
\* holds under the target's name the module this tick executed.
C5_ChangeReloads ==
    [][\A i \in OpIds :
          (/\ ModalStep(i)
           /\ last'.evt = "TIMER"
           /\ running
           /\ CanOpen(ops[i].filepath)
           /\ Changed(ops[i]) # {}) =>
              /\ last'.log # <<>>
              /\ Has(sys_modules', ops[i].mod_name)
              /\ Lookup(sys_modules', ops[i].mod_name).gen > gen]_vars

\* C6: after a successful start the snapshot is such that the first timer
\* tick of the session always reloads, whatever the files' modification times.
C6_FirstTickLoads ==
    [][(/\ last.kind = "execute"
        /\ last.result = "RUNNING_MODAL"
        /\ ModalStep(last.op)
        /\ last'.evt = "TIMER") => last'.log # <<>>]_vars

\* C7: a timer tick with no reload requested reloads once per tracked path
\* whose modification time differs from the snapshot, in the order of the
\* paths, and sets each such path's snapshot entry to that time.
C7_ReloadPerChangedPath ==
    [][\A i \in OpIds :
          (ModalStep(i) /\ last'.evt = "TIMER" /\ running /\ ~reloadFlag) =>
              /\ Len(last'.log) = Cardinality(Changed(ops[i]))
              /\ \A a, b \in DOMAIN last'.log :
                    a < b => IndexOf(ops[i].files, last'.log[a].trig)
                               < IndexOf(ops[i].files, last'.log[b].trig)
              /\ \A p \in Changed(ops[i]) : ops'[i].times[p] = fs[p].mtime]_vars

C9_RequestWithoutSession ==
    [][(last'.kind = "sw_reload" /\ ~running) => reloadFlag' = reloadFlag]_vars

\* C10: a start whose script path is not an existing, readable, regular file
\* is reported as an error and starts nothing: not running, no timer, no
\* snapshot, sys.modules as before.
C10_BadPathDoesNotStart ==
    [][(last'.kind = "execute" /\ ~running /\ ~CanOpen(filepath)) =>
          /\ last'.result = "ERROR"
          /\ ~running'
          /\ timers' = timers
          /\ ops' = ops
          /\ sys_modules' = sys_modules]_vars

\* C12: a write call prefixes its text exactly when the shim is at a line
\* start, as it is before the first call; afterwards the shim is at a line
\* start exactly when the text it forwarded ends with a newline; the buffer
\* receives the text the wrapped stream receives, so the two stay equal.
C12_WritePrefixesAtLineStart ==
    [][/\ writes = <<>> => shim.can_prefix
       /\ Len(writes') = Len(writes) + 1 =>
             LET s == writes'[Len(writes')].s
                 text == IF shim.can_prefix THEN <<PREFIX>> \o s ELSE s
             IN /\ shim'.stream = shim.stream \o text
                /\ shim'.buffer = shim.buffer \o text
                /\ shim'.can_prefix = (text # <<>> /\ text[Len(text)] = "\n")
                /\ shim'.buffer = shim'.stream]_vars

\* write("a\na") then write("a\n"): the first text went out prefixed, the
\* second as it was.
C12_Witness ==
    /\ Len(writes) = 2
    /\ writes[1].s = <<"a", "\n", "a">>
    /\ writes[2].s = <<"a", "\n">>
    /\ shim.stream = <<PREFIX, "a", "\n", "a", "a", "\n">>
    /\ shim.can_prefix

\* Position k of the wrapped stream begins a physical line.
LineStart(k) == k = 1 \/ shim.stream[k - 1] = "\n"

\* C13 as stated: every physical line that reached the wrapped stream
\* begins with the prefix.
C13_EveryLinePrefixed ==
    \A k \in DOMAIN shim.stream : LineStart(k) => shim.stream[k] = PREFIX

\* C13: the prefix stands only at the beginning of a physical line, so no
\* line carries it twice, and a line carries it exactly when a write call
\* began that line; a line that begins inside the text of a call has none.
C13_PrefixWhereCallBeginsLine ==
    /\ \A k \in DOMAIN shim.stream : shim.stream[k] = PREFIX => LineStart(k)
    /\ \A k \in DOMAIN shim.stream :
          LineStart(k) =>
             (shim.stream[k] = PREFIX <=> \E j \in DOMAIN writes : writes[j].at = k)

\* A line split over two calls, the second call holding two newlines.
C13_Witness ==
    /\ Len(writes) = 2
    /\ writes[1].s = <<"a">>
    /\ writes[2].s = <<"\n", "a", "\n">>
    /\ shim.stream = <<PREFIX, "a", "\n", "a", "\n">>

\* The directories from d up to the top of the tree.
RECURSIVE UpFrom(_)
UpFrom(d) ==
    {d} \cup UNION {UpFrom(q) : q \in {x \in Dirs : d \in Range(Children(x))}}
\* The directories at or below r that a chain of directories with the marker
\* joins to r, both ends included.
MarkedBelow(r) ==
    {d \in Dirs : /\ r \in UpFrom(d)
                  /\ \A a \in UpFrom(d) : r \in UpFrom(a) => isfile(<<a, Marker>>)}
FilesIn(ds) == {p \in DOMAIN fs : isfile(p) /\ dirname(p) \in ds}

\* C14: the tracked files a session is started with are the files of the
\* directories that a chain of directories with '__init__.py' joins to the
\* script's directory, nothing from or below a directory without it, each
\* file once; when the script's own directory has none, the script alone.
C14_TrackedFilesAreMarkedChain ==
    \A i \in OpIds :
       ops[i].st = "modal" =>
          LET r == dirname(ops[i].filepath)
          IN /\ Range(ops[i].files) =
                   IF isfile(<<r, Marker>>) THEN FilesIn(MarkedBelow(r))
                   ELSE {ops[i].filepath}
             /\ Cardinality(Range(ops[i].files)) = Len(ops[i].files)
             /\ Range(ops[i].files) = Range(get_paths(ops[i].filepath)[2])

\* A session on a package whose directory 1 has no marker while directory 2
\* below it has one: the files of 0 and 3 are tracked, none of 1 or 2.
C14_Witness ==
    /\ ops[1].st = "modal"
    /\ ops[1].filepath = <<0, "tool.py">>
    /\ ~isfile(<<1, Marker>>)
    /\ isfile(<<1, "tool.py">>)
    /\ isfile(<<2, Marker>>)
    /\ {dirname(p) : p \in Range(ops[1].files)} = {0, 3}

\* C15: a start while sw_settings.running is set is cancelled and changes
\* nothing: no operator instance becomes modal, no timer is added, and the
\* loaders, script paths, snapshots, sys.modules and settings stay as they are.
C15_StartWhileWatchingRejected ==
    [][(last'.kind = "execute" /\ running) =>
          /\ last'.result = "CANCELLED"
          /\ ops' = ops
          /\ timers' = timers
          /\ removed' = removed
          /\ sys_modules' = sys_modules
          /\ gen' = gen
          /\ consoles' = consoles
          /\ filepath' = filepath
          /\ running'
          /\ reloadFlag' = reloadFlag]_vars

\* A start was just cancelled while an operator polls with its timer.
C15_Witness ==
    /\ last.kind = "execute"
    /\ last.result = "CANCELLED"
    /\ running
    /\ \E i \in Pollers : i \in timers /\ ops[i].times # <<>>

\* C16: after a tick of a watching session has reloaded, the paths of the
\* session's snapshot are the files get_paths finds in the tree as it is
\* now, so a file that joined or left the package is polled or dropped.
C16_SnapshotKeysFollowTree ==
    (/\ last.kind = "modal"
     /\ last.evt = "TIMER"
     /\ last.log # <<>>
     /\ last.fault = "none"
     /\ running) =>
        DOMAIN ops[last.op].times = Range(get_paths(ops[last.op].filepath)[2])

\* C19: switching a console's debug mode on while sys.modules has no entry
\* under the script's module name raises nothing and leaves the console's
\* locals as they are; switching it off gives the console the locals it had
\* when the mode was switched on.
C19_DebugWithoutModule ==
    [][\A c \in DOMAIN consoles :
          (last'.kind = "update_debug" /\ consoles'[c] # consoles[c]) =>
             /\ (~consoles[c].active /\ ~Has(sys_modules, update_debug_mod(filepath))) =>
                   /\ last'.fault = "none"
                   /\ consoles'[c].locals = consoles[c].locals
             /\ consoles[c].active =>
                   consoles'[c].locals = consoles[c].globals]_vars

\* C20: a call of modal that reloads leaves sys.stdout and sys.stderr as it
\* found them, whether or not the reload raised, and no reload's output goes
\* through more than one SplitIO.
C20_StdStreamsRestored ==
    [][(last'.kind = "modal" /\ last'.log # <<>>) =>
          /\ sys_stdout' = sys_stdout
          /\ \A k \in DOMAIN last'.log : last'.log[k].shims <= 1]_vars

IsDecimal(s) ==
    LET digits == IF s # <<>> /\ s[1] \in {"-", "+"} THEN Tail(s) ELSE s
    IN digits # <<>> /\ \A k \in DOMAIN digits : digits[k] \in Digits

\* C18: when a call of modal has reloaded without a fault, every console of
\* sw_consoles that is in debug mode and whose name is a decimal integer has
\* as locals the module registered under the script's name.
C18_DebugConsolesRebound ==
    (last.kind = "modal" /\ last.log # <<>> /\ last.fault = "none") =>
        \A c \in DOMAIN consoles :
           (consoles[c].listed /\ consoles[c].active /\ IsDecimal(c)) =>
              /\ Has(sys_modules, ops[last.op].mod_name)
              /\ consoles[c].locals = Lookup(sys_modules, ops[last.op].mod_name).gen

\* C11: a load_handler that ends without a fault leaves sw_consoles empty
\* and the scene watching only when it has started an operator itself, and
\* an operator that polled before the load cancels at its next event without
\* reloading.
C11_LoadStopsOldSessions ==
    [][/\ (last'.kind = "load_handler" /\ last'.fault = "none") =>
             /\ \A c \in DOMAIN consoles : ~consoles'[c].listed
             /\ running' => /\ last'.op \in OpIds
                             /\ ops[last'.op].st = "none"
                             /\ ops'[last'.op].st = "modal"
       /\ \A j \in OpIds :
             (last.kind = "load_handler" /\ ModalStep(j) /\ j # last.op) =>
                 /\ last'.result = "CANCELLED"
                 /\ last'.log = <<>>]_vars

====
